---- MODULE Spec2Model ----
(***************************************************************************)
(* genspec: the README generator (generateReadmeService), the Copilot      *)
(* instructions generator (generateCopilotInstructionsService) and the     *)
(* provider selector (getLLMRepository), over a small file system.         *)
(*                                                                         *)
(* A string is a sequence of runs [c, n]: the character c repeated n       *)
(* times, adjacent runs having different characters.  A fixed literal of   *)
(* the source (a template, a delimiter) and a file or directory name are   *)
(* single symbols.  Slicing, concatenation, joining and substring search   *)
(* are computed on this representation as the JavaScript operations        *)
(* compute them on the characters.                                         *)
(***************************************************************************)
EXTENDS Integers, Sequences, FiniteSets, TLC

VARIABLES
  dirs,       \* the directories that exist
  files,      \* the files that exist, with their contents
  order,      \* the order in which a directory's entries are listed
  request,    \* what the command line asked for
  pc,         \* "ready", "calling" (llm.call awaited), "done" or "threw"
  callStack,  \* per running generateReadmeService call, the calls left in its loop
  cur,        \* the arguments and locals of the call awaiting the provider
  prompt,     \* the prompt in flight
  llm,        \* the provider client in use
  error,      \* the error that ended the run, if any
  reports,    \* the status lines printed
  io,         \* the file system calls made, in order
  calls,      \* the provider invocations, with their outcomes
  dirs0,      \* dirs before the run
  files0      \* files before the run

vars == <<dirs, files, order, request, pc, callStack, cur, prompt, llm,
          error, reports, io, calls, dirs0, files0>>

----------------------------------------------------------------------------
(* Bounds of the explored inputs *)

\* the directory tree is at most this deep below the working directory
MaxDepth == 2

\* at most this many files in the whole tree before the run
MaxFiles == 2

\* String.prototype.slice(0, 1000) of generateReadmeService
SLICE_END == 1000

\* the line width of the documented generateReadmeService
MAX_LINE_LENGTH == 120

----------------------------------------------------------------------------
(* Strings *)

Run(c, n) == [c |-> c, n |-> n]

Lit(c) == <<Run(c, 1)>>

RECURSIVE StrLen(_)
StrLen(s) == IF s = <<>> THEN 0 ELSE Head(s).n + StrLen(Tail(s))

\* s + t
Concat(s, t) ==
  IF s = <<>> THEN t
  ELSE IF t = <<>> THEN s
  ELSE IF s[Len(s)].c = t[1].c
       THEN SubSeq(s, 1, Len(s) - 1)
              \o <<Run(t[1].c, s[Len(s)].n + t[1].n)>>
              \o Tail(t)
       ELSE s \o t

\* s.slice(0, k)
RECURSIVE Slice(_, _)
Slice(s, k) ==
  IF s = <<>> \/ k <= 0 THEN <<>>
  ELSE IF Head(s).n <= k
       THEN Concat(<<Head(s)>>, Slice(Tail(s), k - Head(s).n))
       ELSE <<Run(Head(s).c, k)>>

\* parts.join(sep)
RECURSIVE JoinStr(_, _)
JoinStr(parts, sep) ==
  IF parts = <<>> THEN <<>>
  ELSE IF Len(parts) = 1 THEN parts[1]
  ELSE Concat(Concat(parts[1], sep), JoinStr(Tail(parts), sep))

\* s.includes(x): x occurs in s as a run of consecutive characters
Includes(s, x) ==
  \/ x = <<>>
  \/ \E i \in 1..(Len(s) - Len(x) + 1) :
       \A j \in 1..Len(x) :
         /\ s[i + j - 1].c = x[j].c
         /\ IF j = 1 \/ j = Len(x)
            THEN s[i + j - 1].n >= x[j].n
            ELSE s[i + j - 1].n = x[j].n

\* s.startsWith(x)
StartsWith(s, x) == Slice(s, StrLen(x)) = x

\* the characters of a word, one run each
RECURSIVE Word(_)
Word(cs) == IF cs = <<>> THEN <<>> ELSE Concat(Lit(Head(cs)), Word(Tail(cs)))

----------------------------------------------------------------------------
(* File system: names, paths, listing *)

\* path.join(cwd, '.github') and the output file name in it
GITHUB == ".github"
COPILOT_MD == "copilot-instructions.md"
README_MD == "README.md"

\* the directories are a, a/a, ... and .github in the working directory
DirNames == {"a", GITHUB}

FileNames == {README_MD, "readme.md", "a.ts"}

\* a path is the sequence of its names below the working directory
cwd == <<>>

Join(p, name) == Append(p, name)

\* path.relative(from, to), to below from
Relative(from, to) == SubSeq(to, Len(from) + 1, Len(to))

Parent(p) == SubSeq(p, 1, Len(p) - 1)

Basename(p) == p[Len(p)]

\* a/a/.../a, k names long
Chain(k) == [i \in 1..k |-> "a"]

\* name.toLowerCase()
ToLowerCase(name) ==
  CASE name = "README.md" -> "readme.md"
    [] OTHER -> name

\* a path as text, as path.join and path.relative print it
RECURSIVE PathStr(_)
PathStr(p) ==
  IF p = <<>> THEN Lit(".")
  ELSE IF Len(p) = 1 THEN Lit(p[1])
  ELSE Concat(Concat(Lit(p[1]), Lit("/")), PathStr(Tail(p)))

RECURSIVE SmallSubsets(_, _)
SmallSubsets(S, k) ==
  IF k = 0 \/ S = {} THEN {{}}
  ELSE LET x == CHOOSE y \in S : TRUE
       IN SmallSubsets(S \ {x}, k)
            \cup {T \cup {x} : T \in SmallSubsets(S \ {x}, k - 1)}

RECURSIVE Reverse(_)
Reverse(s) == IF s = <<>> THEN <<>> ELSE Append(Reverse(Tail(s)), Head(s))

\* the orders in which the operating system may list a directory's entries
NameList == <<GITHUB, "README.md", "a", "a.ts", COPILOT_MD, "readme.md">>

Orders == {NameList, Reverse(NameList)}

\* texts a file may hold before the run: a short line with white space
\* around it, and one line longer than the slice
Short == <<Run(" ", 1), Run("x", 2), Run("\n", 1)>>
Long == <<Run("x", SLICE_END + 1)>>
Texts == {Short, Long}

\* texts the model behind a provider may answer; '' is the empty answer
Empty == <<>>
OK == Word(<<"O", "K">>)
Answers == {Empty, OK}

\* fs.existsSync(p)
ExistsSync(p) == p \in dirs \/ p \in DOMAIN files

\* fs.statSync(p).isFile(), entry.isFile()
IsFile(p) == p \in DOMAIN files

\* fs.statSync(p).isDirectory(), entry.isDirectory()
IsDirectory(p) == p \in dirs

\* fs.readdirSync(d): the names of the entries of d, in listing order
ReaddirSync(d) == SelectSeq(order, LAMBDA n : ExistsSync(Join(d, n)))

\* fs.readFileSync(p, 'utf-8')
ReadFileSync(p) == files[p]

\* the files after fs.writeFileSync(p, content)
WriteFileSync(p, content) ==
  [q \in DOMAIN files \cup {p} |-> IF q = p THEN content ELSE files[q]]

\* xs.map(f)
Map(xs, f(_)) == [i \in 1..Len(xs) |-> f(xs[i])]

Io(op, p) == [op |-> op, path |-> p]

----------------------------------------------------------------------------
(* Provider selector and provider clients *)

GPT_4O == Word(<<"g", "p", "t", "-", "4", "o">>)
GEMINI_FLASH == Word(<<"g", "e", "m", "i", "n", "i", "-", "2">>)
FOO_BAR == Word(<<"f", "o", "o", "-", "b", "a", "r">>)
GPT4 == Word(<<"g", "p", "t", "4">>)

Models == {GPT_4O, GEMINI_FLASH, FOO_BAR, GPT4}

\* the values of --llm-api-key, --llm-api-url and --language
ApiKeys == {"key", "none"}
ApiUrls == {"url", "none"}
Languages == {"ja", "en"}

\* the prefixes that getLLMRepository tests
GPT_PREFIX == Word(<<"g", "p", "t", "-">>)
GEMINI_PREFIX == Word(<<"g", "e", "m", "i", "n", "i", "-">>)

\* new OpenAIClient(config)
CreateOpenAIClient(apiKey, model, apiUrl, language) ==
  [kind |-> "openai", apiKey |-> apiKey, model |-> model, apiUrl |-> apiUrl,
   language |-> language]

\* new GeminiClient(config): the configuration has no language
CreateGeminiClient(apiKey, model) ==
  [kind |-> "gemini", apiKey |-> apiKey, model |-> model, apiUrl |-> "none",
   language |-> "none"]

Unsupported(model) ==
  [kind |-> "UnsupportedModel",
   message |-> Concat(Lit("Unsupported model: "), model)]

\* a variant whose last branch falls back to the OpenAI client
GetLLMRepository_FallsBack(model, apiKey, apiUrl, language) ==
  IF StartsWith(model, GEMINI_PREFIX)
  THEN CreateGeminiClient(apiKey, model)
  ELSE CreateOpenAIClient(apiKey, model, apiUrl, language)

\* a variant that picks the OpenAI client whenever an API URL is given
GetLLMRepository_ByUrl(model, apiKey, apiUrl, language) ==
  IF apiUrl # "none" \/ StartsWith(model, GPT_PREFIX)
  THEN CreateOpenAIClient(apiKey, model, apiUrl, language)
  ELSE IF StartsWith(model, GEMINI_PREFIX)
  THEN CreateGeminiClient(apiKey, model)
  ELSE Unsupported(model)

\* getLLMRepository: the client, or the error it throws
GetLLMRepository(model, apiKey, apiUrl, language) ==
  IF StartsWith(model, GPT_PREFIX)
  THEN CreateOpenAIClient(apiKey, model, apiUrl, language)
  ELSE IF StartsWith(model, GEMINI_PREFIX)
  THEN CreateGeminiClient(apiKey, model)
  ELSE Unsupported(model)

\* the text that client.call(p) sends to the model: OpenAIClient.call puts
\* the client's language before the prompt, GeminiClient.call sends the prompt
SentText(client, p) ==
  IF client.kind = "openai"
  THEN Concat(Lit("Generate the following in "),
       Concat(Lit(client.language),
       Concat(Lit(" language: "), p)))
  ELSE p

\* the default of getLLMRepository's language parameter
DefaultLanguage == "en"

NoError == [kind |-> "none", message |-> <<>>]

NoClient == [kind |-> "none", apiKey |-> "none", model |-> <<>>,
             apiUrl |-> "none", language |-> "none"]

Report(kind, p) == [kind |-> kind, path |-> p]

\* the outcome of llm.call(prompt)
Pending == [state |-> "pending", content |-> <<>>]
Resolved(content) == [state |-> "resolved", content |-> content]
Rejected == [state |-> "rejected", content |-> <<>>]

Invocation(folderPath, p, client) ==
  [folderPath |-> folderPath, prompt |-> p, llm |-> client, result |-> Pending]

\* the invocation log once the call in flight has settled
Settled(result) == [calls EXCEPT ![Len(calls)].result = result]

----------------------------------------------------------------------------
(* README generator *)

\* the arguments of one call of generateReadmeService
ReadmeArgs(folderPath, model, apiKey, apiUrl, recursive) ==
  [folderPath |-> folderPath, model |-> model, apiKey |-> apiKey,
   apiUrl |-> apiUrl, recursive |-> recursive, language |-> "none"]

\* the object the readme command passes to the generator: the language rides
\* along, although the generator's parameter list does not name it
ReadmeCommandArgs(r) ==
  [ReadmeArgs(r.dir, r.model, r.apiKey, r.apiUrl, r.recursive)
     EXCEPT !.language = r.language]

\* findSubdirectories(folderPath)
FindSubdirectories(folderPath) ==
  Map(SelectSeq(ReaddirSync(folderPath),
                LAMBDA n : IsDirectory(Join(folderPath, n))),
      LAMBDA n : Join(folderPath, n))

\* the names of the regular files of folderPath, line 84
ScannedFiles(folderPath) ==
  SelectSeq(ReaddirSync(folderPath), LAMBDA f : IsFile(Join(folderPath, f)))

\* a variant whose entry holds the whole file
FileSummary_WholeFile(folderPath, file) ==
  Concat(Lit("## "),
  Concat(PathStr(Relative(folderPath, Join(folderPath, file))),
  Concat(Lit("\n"),
  Concat(Lit("FENCE"),
  Concat(Lit("\n"),
  Concat(ReadFileSync(Join(folderPath, file)),
  Concat(Lit("\n"), Lit("FENCE"))))))))

\* one entry of fileSummaries, lines 86-90; FENCE is the line of three backquotes
FileSummary(folderPath, file) ==
  LET rel == Relative(folderPath, Join(folderPath, file))
      content == Slice(ReadFileSync(Join(folderPath, file)), SLICE_END)
  IN Concat(Lit("## "),
     Concat(PathStr(rel),
     Concat(Lit("\n"),
     Concat(Lit("FENCE"),
     Concat(Lit("\n"),
     Concat(content,
     Concat(Lit("\n"), Lit("FENCE"))))))))

\* a variant that gives every entry of the listing a heading, the
\* subdirectories too
FileSummaries_EveryEntry(folderPath) ==
  JoinStr(Map(ReaddirSync(folderPath),
              LAMBDA f : IF IsFile(Join(folderPath, f))
                         THEN FileSummary(folderPath, f)
                         ELSE Concat(Lit("## "), Lit(f))),
          Word(<<"\n", "\n">>))

\* fileSummaries, lines 85-91
FileSummaries(folderPath) ==
  JoinStr(Map(ScannedFiles(folderPath),
              LAMBDA file : FileSummary(folderPath, file)),
          Word(<<"\n", "\n">>))

\* a variant whose prompt carries the number of the invocation
ReadmePrompt_CountsCalls(folderPath) ==
  Concat(FileSummaries(folderPath), <<Run("#", Len(calls) + 1)>>)

\* a variant whose prompt is the file summaries alone
ReadmePrompt_OnlySummaries(folderPath) == FileSummaries(folderPath)

\* prompt, line 92
ReadmePrompt(folderPath) ==
  Concat(Lit("\n"),
  Concat(Lit("<create a README.md for this folder>"),
  Concat(Lit("Folder path: "),
  Concat(PathStr(folderPath),
  Concat(Lit("\n"),
  Concat(Lit("<sections to include>"),
  Concat(Lit("\n"),
  Concat(FileSummaries(folderPath), Lit("\n")))))))))

\* the file system calls of lines 79-91, in order
ScanIo(folderPath) ==
  <<Io("exists", folderPath), Io("readdir", folderPath)>>
    \o Map(ReaddirSync(folderPath), LAMBDA f : Io("stat", Join(folderPath, f)))
    \o Map(ScannedFiles(folderPath), LAMBDA f : Io("read", Join(folderPath, f)))

\* the frames of the calls still running: returned calls and finished loops
\* are dropped
RECURSIVE Unwind(_)
Unwind(stack) ==
  IF stack = <<>> THEN <<>>
  ELSE IF Head(stack) = <<>> THEN Unwind(Tail(stack))
  ELSE stack

PcAfter(stack) == IF Unwind(stack) = <<>> THEN "done" ELSE "ready"

NextArgs == Head(Head(callStack))

\* the caller's loop moves past the call being made
Called == <<Tail(Head(callStack))>> \o Tail(callStack)

NoLocals == [args |-> ReadmeArgs(<<>>, <<>>, "none", "none", FALSE),
             allReadmeContents |-> <<>>]

\* a variant without the return of line 81: line 84 lists the missing
\* directory and fs.readdirSync throws
ReadmeDirectoryNotFound_NoReturn ==
  /\ pc = "ready" /\ request.service = "readme"
  /\ ~ExistsSync(NextArgs.folderPath)
  /\ io' = Append(io, Io("exists", NextArgs.folderPath))
  /\ reports' = Append(reports, Report("DirectoryNotFound", NextArgs.folderPath))
  /\ error' = [kind |-> "ENOENT", message |-> PathStr(NextArgs.folderPath)]
  /\ callStack' = <<>>
  /\ pc' = "threw"
  /\ UNCHANGED <<dirs, files, order, request, cur, prompt, llm, calls, dirs0, files0>>

\* lines 79-82: the directory is missing
ReadmeDirectoryNotFound ==
  /\ pc = "ready" /\ request.service = "readme"
  /\ ~ExistsSync(NextArgs.folderPath)
  /\ io' = Append(io, Io("exists", NextArgs.folderPath))
  /\ reports' = Append(reports, Report("DirectoryNotFound", NextArgs.folderPath))
  /\ callStack' = Unwind(Called)
  /\ pc' = PcAfter(Called)
  /\ UNCHANGED <<dirs, files, order, request, cur, prompt, llm, error, calls, dirs0, files0>>

\* lines 79-93: getLLMRepository throws, and nothing catches it
ReadmeUnsupportedModel ==
  /\ pc = "ready" /\ request.service = "readme"
  /\ ExistsSync(NextArgs.folderPath)
  /\ LET a == NextArgs
         client == GetLLMRepository(a.model, a.apiKey, a.apiUrl, DefaultLanguage)
     IN /\ client.kind = "UnsupportedModel"
        /\ error' = client
        /\ io' = io \o ScanIo(a.folderPath)
  /\ callStack' = <<>>
  /\ pc' = "threw"
  /\ UNCHANGED <<dirs, files, order, request, cur, prompt, llm, reports, calls, dirs0, files0>>

\* a variant that does not await llm.call while the caller's loop has
\* directories left
ReadmeCallProvider_NotAwaited ==
  /\ pc = "ready" /\ request.service = "readme"
  /\ ExistsSync(NextArgs.folderPath)
  /\ LET a == NextArgs
         client == GetLLMRepository(a.model, a.apiKey, a.apiUrl, DefaultLanguage)
         p == ReadmePrompt(a.folderPath)
     IN /\ client.kind # "UnsupportedModel"
        /\ llm' = client
        /\ cur' = [NoLocals EXCEPT !.args = a]
        /\ prompt' = p
        /\ io' = io \o ScanIo(a.folderPath)
        /\ calls' = Append(calls, Invocation(a.folderPath, p, client))
  /\ callStack' = Called
  /\ pc' = IF Unwind(Called) # <<>> THEN "ready" ELSE "calling"
  /\ UNCHANGED <<dirs, files, order, request, error, reports, dirs0, files0>>

\* lines 79-94: the prompt is built and llm.call(prompt) is awaited
ReadmeCallProvider ==
  /\ pc = "ready" /\ request.service = "readme"
  /\ ExistsSync(NextArgs.folderPath)
  /\ LET a == NextArgs
         client == GetLLMRepository(a.model, a.apiKey, a.apiUrl, DefaultLanguage)
         p == ReadmePrompt(a.folderPath)
     IN /\ client.kind # "UnsupportedModel"
        /\ llm' = client
        /\ cur' = [NoLocals EXCEPT !.args = a]
        /\ prompt' = p
        /\ io' = io \o ScanIo(a.folderPath)
        /\ calls' = Append(calls, Invocation(a.folderPath, p, client))
  /\ callStack' = Called
  /\ pc' = "calling"
  /\ UNCHANGED <<dirs, files, order, request, error, reports, dirs0, files0>>

\* a variant whose loop ends after its first subdirectory
RecursiveCalls_FirstOnly(a) ==
  LET subdirs == FindSubdirectories(a.folderPath)
  IN IF subdirs = <<>> THEN <<>>
     ELSE <<ReadmeArgs(Head(subdirs), a.model, a.apiKey, a.apiUrl, TRUE)>>

\* a variant whose loop takes the subdirectories last to first
RecursiveCalls_LastFirst(a) ==
  Reverse(Map(FindSubdirectories(a.folderPath),
              LAMBDA subdir : ReadmeArgs(subdir, a.model, a.apiKey, a.apiUrl, TRUE)))

\* the calls of the loop of lines 105-113
RecursiveCalls(a) ==
  Map(FindSubdirectories(a.folderPath),
      LAMBDA subdir : ReadmeArgs(subdir, a.model, a.apiKey, a.apiUrl, TRUE))

\* a variant that writes whatever the provider answered, the empty answer too
ReadmeFilesAfter_WritesEmpty(outputPath, content) ==
  WriteFileSync(outputPath, content)

\* a variant that appends the answer to the file's prior content
ReadmeFilesAfter_Appends(outputPath, content) ==
  IF content # Empty
  THEN WriteFileSync(outputPath,
                     IF IsFile(outputPath)
                     THEN Concat(ReadFileSync(outputPath), content)
                     ELSE content)
  ELSE files

\* lines 96-101: the files once the answer has been handled
ReadmeFilesAfter(outputPath, content) ==
  IF content # Empty THEN WriteFileSync(outputPath, content) ELSE files

\* lines 96-101: the status line printed
ReadmeReport(outputPath, content) ==
  IF content # Empty
  THEN Report("Generated", outputPath)
  ELSE Report("GenerationFailed", outputPath)

\* a variant that enters the loop whatever the flag says
SubdirFrames_IgnoresFlag(a) == <<RecursiveCalls(a)>>

\* lines 103-114: the loop over the subdirectories, entered if recursive
SubdirFrames(a) == IF a.recursive THEN <<RecursiveCalls(a)>> ELSE <<>>

\* lines 95-114: llm.call resolved with content
ReadmeProviderReturns(content) ==
  /\ pc = "calling" /\ request.service = "readme"
  /\ LET a == cur.args
         outputPath == Join(a.folderPath, README_MD)
         after == ReadmeFilesAfter(outputPath, content)
         frame == SubdirFrames(a)
     IN /\ files' = after
        /\ reports' = Append(reports, ReadmeReport(outputPath, content))
        /\ io' = io \o (IF content # Empty THEN <<Io("write", outputPath)>> ELSE <<>>)
                    \o (IF frame # <<>> THEN <<Io("readdir", a.folderPath)>> ELSE <<>>)
        /\ callStack' = Unwind(frame \o callStack)
        /\ pc' = PcAfter(frame \o callStack)
  /\ calls' = Settled(Resolved(content))
  /\ cur' = NoLocals
  /\ prompt' = <<>>
  /\ llm' = NoClient
  /\ UNCHANGED <<dirs, order, request, error, dirs0, files0>>

\* a variant in which the step catches the rejection and goes on to its loop
\* over the subdirectories
ProviderRaises_Caught ==
  /\ pc = "calling"
  /\ error' = [kind |-> "ProviderCallError", message |-> <<>>]
  /\ reports' = IF llm.kind = "gemini"
                THEN Append(reports, Report("ErrorCallingGeminiAPI", cur.args.folderPath))
                ELSE reports
  /\ callStack' = Unwind(SubdirFrames(cur.args) \o callStack)
  /\ pc' = PcAfter(SubdirFrames(cur.args) \o callStack)
  /\ cur' = NoLocals
  /\ prompt' = <<>>
  /\ llm' = NoClient
  /\ calls' = Settled(Rejected)
  /\ UNCHANGED <<dirs, files, order, request, io, dirs0, files0>>

\* llm.call rejected: the error passes through every awaiting caller
ProviderRaises ==
  /\ pc = "calling"
  /\ error' = [kind |-> "ProviderCallError", message |-> <<>>]
  /\ reports' = IF llm.kind = "gemini"
                THEN Append(reports, Report("ErrorCallingGeminiAPI", cur.args.folderPath))
                ELSE reports
  /\ callStack' = <<>>
  /\ pc' = "threw"
  /\ cur' = NoLocals
  /\ prompt' = <<>>
  /\ llm' = NoClient
  /\ calls' = Settled(Rejected)
  /\ UNCHANGED <<dirs, files, order, request, io, dirs0, files0>>

----------------------------------------------------------------------------
(* Copilot instructions generator *)

Whitespace == {" ", "\n", "\t"}

RECURSIVE TrimStart(_)
TrimStart(s) ==
  IF s # <<>> /\ Head(s).c \in Whitespace THEN TrimStart(Tail(s)) ELSE s

RECURSIVE TrimEnd(_)
TrimEnd(s) ==
  IF s # <<>> /\ s[Len(s)].c \in Whitespace
  THEN TrimEnd(SubSeq(s, 1, Len(s) - 1))
  ELSE s

\* s.trim()
Trim(s) == TrimEnd(TrimStart(s))

\* a variant of the loop that does not descend into directories
FindReadmesIn_NoDescent(rootDir, entries) ==
  Map(SelectSeq(entries,
                LAMBDA n : IsFile(Join(rootDir, n)) /\ ToLowerCase(n) = "readme.md"),
      LAMBDA n : Join(rootDir, n))

\* findAllReadmesRecursively(rootDir); FindReadmesIn is its loop over entries
RECURSIVE FindAllReadmesRecursively(_), FindReadmesIn(_, _)
FindReadmesIn(rootDir, entries) ==
  IF entries = <<>> THEN <<>>
  ELSE LET fullPath == Join(rootDir, Head(entries))
           found == IF IsDirectory(fullPath)
                    THEN FindAllReadmesRecursively(fullPath)
                    ELSE IF IsFile(fullPath)
                            /\ ToLowerCase(Head(entries)) = "readme.md"
                    THEN <<fullPath>>
                    ELSE <<>>
       IN found \o FindReadmesIn(rootDir, Tail(entries))

FindAllReadmesRecursively(rootDir) == FindReadmesIn(rootDir, ReaddirSync(rootDir))

\* the directory listings findAllReadmesRecursively makes, in order
RECURSIVE WalkIo(_), WalkIoIn(_, _)
WalkIoIn(rootDir, entries) ==
  IF entries = <<>> THEN <<>>
  ELSE (IF IsDirectory(Join(rootDir, Head(entries)))
        THEN WalkIo(Join(rootDir, Head(entries)))
        ELSE <<>>)
         \o WalkIoIn(rootDir, Tail(entries))

WalkIo(rootDir) == <<Io("readdir", rootDir)>> \o WalkIoIn(rootDir, ReaddirSync(rootDir))

\* path.join(cwd, '.github') and path.join(githubDir, 'copilot-instructions.md')
githubDir == Join(cwd, GITHUB)
copilotOutputPath == Join(githubDir, COPILOT_MD)

\* one element of the map of lines 41-45
TaggedReadme(rootDir, filePath) ==
  Concat(Lit("# "),
  Concat(PathStr(Relative(rootDir, filePath)),
  Concat(Word(<<"\n", "\n">>),
  Concat(Trim(ReadFileSync(filePath)), Lit("\n")))))

\* a variant that separates the entries by a blank line
ReadmeDelimiter_BlankLine == Word(<<"\n", "\n">>)

\* the separator of the join of line 46
ReadmeDelimiter == Word(<<"\n", "---", "\n">>)

\* allReadmeContents, lines 40-46
AllReadmeContents(rootDir) ==
  JoinStr(Map(FindAllReadmesRecursively(rootDir),
              LAMBDA filePath : TaggedReadme(rootDir, filePath)),
          ReadmeDelimiter)

\* prompt, line 49
CopilotPrompt(rootDir, language) ==
  Concat(Lit("<create copilot-instructions.md from these READMEs, in "),
  Concat(Lit(language),
  Concat(Lit(" language; output raw markdown>"),
  Concat(Word(<<"\n", "\n">>), AllReadmeContents(rootDir)))))

\* readmeSection, line 57
ReadmeSection(allReadmeContents) ==
  Concat(Word(<<"\n", "\n", "---", "\n", "\n", "# All README files", "\n">>),
         allReadmeContents)

\* a variant that writes the provider's result alone
FinalContent_ResultOnly(instructionContent, allReadmeContents) ==
  instructionContent

\* finalContent, line 58
FinalContent(instructionContent, allReadmeContents) ==
  Concat(IF instructionContent # Empty THEN instructionContent ELSE Empty,
         ReadmeSection(allReadmeContents))

CopilotIo(rootDir) ==
  WalkIo(rootDir)
    \o Map(FindAllReadmesRecursively(rootDir), LAMBDA f : Io("read", f))

\* a variant that resolves the provider before it looks for README files
CopilotRootMissing_AfterResolve ==
  /\ pc = "ready" /\ request.service = "copilot"
  /\ ~IsDirectory(request.dir)
  /\ LET client == GetLLMRepository(request.model, request.apiKey,
                                    request.apiUrl, DefaultLanguage)
     IN error' = IF client.kind = "UnsupportedModel" THEN client
                 ELSE [kind |-> "ENOENT", message |-> PathStr(request.dir)]
  /\ pc' = "threw"
  /\ UNCHANGED <<dirs, files, order, request, callStack, cur, prompt, llm,
                 reports, io, calls, dirs0, files0>>

\* line 38: fs.readdirSync(rootDir) throws, rootDir is missing
CopilotRootMissing ==
  /\ pc = "ready" /\ request.service = "copilot"
  /\ ~IsDirectory(request.dir)
  /\ error' = [kind |-> "ENOENT", message |-> PathStr(request.dir)]
  /\ pc' = "threw"
  /\ UNCHANGED <<dirs, files, order, request, callStack, cur, prompt, llm,
                 reports, io, calls, dirs0, files0>>

\* a variant that makes the .github directory before it resolves the provider
CopilotUnsupportedModel_AfterMkdir ==
  /\ pc = "ready" /\ request.service = "copilot"
  /\ IsDirectory(request.dir)
  /\ LET client == GetLLMRepository(request.model, request.apiKey,
                                    request.apiUrl, DefaultLanguage)
     IN /\ client.kind = "UnsupportedModel"
        /\ error' = client
  /\ dirs' = dirs \cup {githubDir}
  /\ io' = io \o CopilotIo(request.dir) \o <<Io("mkdir", githubDir)>>
  /\ pc' = "threw"
  /\ UNCHANGED <<files, order, request, callStack, cur, prompt, llm,
                 reports, calls, dirs0, files0>>

\* lines 32-54: getLLMRepository throws
CopilotUnsupportedModel ==
  /\ pc = "ready" /\ request.service = "copilot"
  /\ IsDirectory(request.dir)
  /\ LET client == GetLLMRepository(request.model, request.apiKey,
                                    request.apiUrl, DefaultLanguage)
     IN /\ client.kind = "UnsupportedModel"
        /\ error' = client
  /\ io' = io \o CopilotIo(request.dir)
  /\ pc' = "threw"
  /\ UNCHANGED <<dirs, files, order, request, callStack, cur, prompt, llm,
                 reports, calls, dirs0, files0>>

\* lines 32-55: the prompt is built and llm.call(prompt) is awaited
CopilotCallProvider ==
  /\ pc = "ready" /\ request.service = "copilot"
  /\ IsDirectory(request.dir)
  /\ LET client == GetLLMRepository(request.model, request.apiKey,
                                    request.apiUrl, DefaultLanguage)
         p == CopilotPrompt(request.dir, request.language)
     IN /\ client.kind # "UnsupportedModel"
        /\ llm' = client
        /\ prompt' = p
        /\ calls' = Append(calls, Invocation(request.dir, p, client))
  /\ cur' = [args |-> ReadmeArgs(request.dir, request.model, request.apiKey,
                                 request.apiUrl, FALSE),
             allReadmeContents |-> AllReadmeContents(request.dir)]
  /\ io' = io \o CopilotIo(request.dir)
  /\ pc' = "calling"
  /\ UNCHANGED <<dirs, files, order, request, callStack, error, reports, dirs0, files0>>

\* a variant that puts .github below rootDir instead of the working directory
CopilotProviderReturns_UnderRoot(instructionContent) ==
  /\ pc = "calling" /\ request.service = "copilot"
  /\ LET dir == Join(cur.args.folderPath, GITHUB)
         outputPath == Join(dir, COPILOT_MD)
     IN /\ dirs' = dirs \cup {dir}
        /\ files' = WriteFileSync(outputPath,
                                  FinalContent(instructionContent, cur.allReadmeContents))
        /\ io' = io \o <<Io("exists", dir)>>
                    \o (IF ~ExistsSync(dir) THEN <<Io("mkdir", dir)>> ELSE <<>>)
                    \o <<Io("write", outputPath)>>
        /\ reports' = Append(reports,
                             IF instructionContent # Empty
                             THEN Report("Generated", outputPath)
                             ELSE Report("GenerationFailed", outputPath))
  /\ pc' = "done"
  /\ cur' = NoLocals
  /\ prompt' = <<>>
  /\ llm' = NoClient
  /\ calls' = Settled(Resolved(instructionContent))
  /\ UNCHANGED <<order, request, callStack, error, dirs0, files0>>

\* lines 56-68: llm.call resolved with instructionContent
CopilotProviderReturns(instructionContent) ==
  /\ pc = "calling" /\ request.service = "copilot"
  /\ dirs' = dirs \cup {githubDir}
  /\ files' = WriteFileSync(copilotOutputPath,
                            FinalContent(instructionContent, cur.allReadmeContents))
  /\ io' = io \o <<Io("exists", githubDir)>>
              \o (IF ~ExistsSync(githubDir) THEN <<Io("mkdir", githubDir)>> ELSE <<>>)
              \o <<Io("write", copilotOutputPath)>>
  /\ reports' = Append(reports,
                       IF instructionContent # Empty
                       THEN Report("Generated", copilotOutputPath)
                       ELSE Report("GenerationFailed", copilotOutputPath))
  /\ pc' = "done"
  /\ cur' = NoLocals
  /\ prompt' = <<>>
  /\ llm' = NoClient
  /\ calls' = Settled(Resolved(instructionContent))
  /\ UNCHANGED <<order, request, callStack, error, dirs0, files0>>

----------------------------------------------------------------------------
(* Runs *)

Targets == {cwd, <<"a">>}

Requests ==
  {r \in [service : {"readme", "copilot"}, dir : Targets, model : Models,
          recursive : BOOLEAN, apiKey : {"key"}, apiUrl : {"url"},
          language : {"ja"}] :
     r.service = "copilot" => ~r.recursive}

\* the directories of a tree: the working directory, a chain of
\* subdirectories below it, and .github in it or not
DirConfigs ==
  {{Chain(i) : i \in 0..k} \cup G : k \in 0..MaxDepth, G \in {{}, {githubDir}}}

\* where a file may be before the run: README.md in the working directory
\* and the chain, a source file in the directories that can be the target,
\* readme.md in directory a, the instructions file in .github
FileSlots(D) ==
  {Join(d, README_MD) : d \in D \ {githubDir}}
    \cup {Join(d, "a.ts") : d \in D \cap Targets}
    \cup {Join(d, "readme.md") : d \in D \cap {Chain(1)}}
    \cup (IF githubDir \in D THEN {copilotOutputPath} ELSE {})

\* the contents of the files S before the run: all short, or all long
InitialFiles(S) == {[p \in S |-> t] : t \in Texts}

Init ==
  /\ dirs \in DirConfigs
  /\ order \in Orders
  /\ \E S \in SmallSubsets(FileSlots(dirs), MaxFiles) : files \in InitialFiles(S)
  /\ request \in Requests
  /\ pc = "ready"
  /\ callStack = IF request.service = "readme"
                 THEN << <<ReadmeCommandArgs(request)>> >>
                 ELSE <<>>
  /\ cur = NoLocals
  /\ prompt = <<>>
  /\ llm = NoClient
  /\ error = NoError
  /\ reports = <<>>
  /\ io = <<>>
  /\ calls = <<>>
  /\ dirs0 = dirs
  /\ files0 = files

Next ==
  \/ ReadmeDirectoryNotFound
  \/ ReadmeUnsupportedModel
  \/ ReadmeCallProvider
  \/ \E content \in Answers : ReadmeProviderReturns(content)
  \/ ProviderRaises
  \/ CopilotRootMissing
  \/ CopilotUnsupportedModel
  \/ CopilotCallProvider
  \/ \E content \in Answers : CopilotProviderReturns(content)

Spec == Init /\ [][Next]_vars

----------------------------------------------------------------------------
(* Two runs of the readme command on the same folder contents, with a        *)
(* provider that answers with the prompt it was given                        *)

\* the README.md that a run left behind
Written(p) ==
  [kind |-> "Written", path |-> p,
   content |-> IF p \in DOMAIN files THEN files[p] ELSE Empty]

\* llm.call resolves with its input
ReadmeProviderEchoes == ReadmeProviderReturns(prompt)

\* the command is run a second time, on the folder as it was before the first
RunAgain ==
  /\ pc = "done" /\ request.service = "readme" /\ Len(calls) = 1
  /\ reports' = Append(reports, Written(Join(request.dir, README_MD)))
  /\ files' = files0
  /\ dirs' = dirs0
  /\ callStack' = << <<ReadmeCommandArgs(request)>> >>
  /\ pc' = "ready"
  /\ UNCHANGED <<order, request, cur, prompt, llm, error, io, calls, dirs0, files0>>

InitEcho ==
  /\ Init
  /\ request.service = "readme" /\ ~request.recursive
  /\ request.dir \in dirs
  /\ GetLLMRepository(request.model, request.apiKey, request.apiUrl,
                      DefaultLanguage).kind # "UnsupportedModel"

NextEcho ==
  \/ ReadmeCallProvider
  \/ ReadmeProviderEchoes
  \/ RunAgain

SpecEcho == InitEcho /\ [][NextEcho]_vars

-----------------------------------------------------------------------------
(* The commands of the CLI with the --env-mode option: the request holds    *)
(* the options as parsed and the two environment variables                  *)

\* a variant of the test that never finds the credentials missing
EnvCredentialsMissing_Never(r) == FALSE

\* --env-mode is given and the test `!apiKey && !apiUrl` succeeds
EnvCredentialsMissing(r) ==
  r.envMode /\ r.LLM_API_KEY = "none" /\ r.LLM_API_URL = "none"

\* apiKey and apiUrl as the action passes them on: the options, or with
\* --env-mode the environment variables
Credentials(r) ==
  IF r.envMode
  THEN [r EXCEPT !.apiKey = r.LLM_API_KEY, !.apiUrl = r.LLM_API_URL]
  ELSE r

\* the action of the readme command up to its call of the generator
ReadmeCommand ==
  /\ pc = "command" /\ request.service = "readme"
  /\ IF EnvCredentialsMissing(request)
     THEN /\ error' = [kind |-> "EnvCredentialsMissing", message |-> <<>>]
          /\ pc' = "threw"
          /\ UNCHANGED <<request, callStack>>
     ELSE /\ request' = Credentials(request)
          /\ callStack' = << <<ReadmeCommandArgs(request')>> >>
          /\ pc' = "ready"
          /\ UNCHANGED error
  /\ UNCHANGED <<dirs, files, order, cur, prompt, llm, reports, io, calls, dirs0, files0>>

\* the action of the copilot command up to its call of the generator
CopilotCommand ==
  /\ pc = "command" /\ request.service = "copilot"
  /\ IF EnvCredentialsMissing(request)
     THEN /\ error' = [kind |-> "EnvCredentialsMissing", message |-> <<>>]
          /\ pc' = "threw"
          /\ UNCHANGED request
     ELSE /\ request' = Credentials(request)
          /\ pc' = "ready"
          /\ UNCHANGED error
  /\ UNCHANGED <<dirs, files, order, callStack, cur, prompt, llm, reports, io, calls,
                 dirs0, files0>>

\* the command lines: a supported and an unsupported model, credentials
\* given as options, and the environment with each variable set or not
CommandLines ==
  {r \in [service : {"readme", "copilot"}, dir : Targets, model : {GPT_4O, FOO_BAR},
          recursive : BOOLEAN, apiKey : {"key"}, apiUrl : {"url"},
          language : {"ja"}, envMode : BOOLEAN,
          LLM_API_KEY : ApiKeys, LLM_API_URL : ApiUrls] :
     /\ r.service = "copilot" => ~r.recursive
     /\ ~r.envMode => r.LLM_API_KEY = "none" /\ r.LLM_API_URL = "none"}

InitCli ==
  /\ dirs \in DirConfigs
  /\ order = NameList
  /\ \E S \in SmallSubsets(FileSlots(dirs), MaxFiles) : files \in InitialFiles(S)
  /\ request \in CommandLines
  /\ pc = "command"
  /\ callStack = <<>>
  /\ cur = NoLocals
  /\ prompt = <<>>
  /\ llm = NoClient
  /\ error = NoError
  /\ reports = <<>>
  /\ io = <<>>
  /\ calls = <<>>
  /\ dirs0 = dirs
  /\ files0 = files

NextCli ==
  \/ ReadmeCommand
  \/ CopilotCommand
  \/ Next

SpecCli == InitCli /\ [][NextCli]_vars

-----------------------------------------------------------------------------
(* Recursive runs of the readme command with a provider whose every call   *)
(* returns: the awaited promise is resolved and the continuation is run    *)

InitReturns ==
  /\ Init
  /\ request.service = "readme" /\ request.recursive

NextReturns ==
  \/ ReadmeDirectoryNotFound
  \/ ReadmeUnsupportedModel
  \/ ReadmeCallProvider
  \/ \E content \in Answers : ReadmeProviderReturns(content)

\* each provider call eventually returns
ProviderReturns == WF_vars(\E content \in Answers : ReadmeProviderReturns(content))

\* a call of the generator that was made runs its synchronous part: the run
\* does not stay before line 79 for ever
GeneratorRuns == []<>(pc # "ready")

SpecReturns == InitReturns /\ [][NextReturns]_vars /\ ProviderReturns /\ GeneratorRuns

----------------------------------------------------------------------------
(* Properties *)

Range(seq) == {seq[i] : i \in DOMAIN seq}

\* x is an element of the sequence
InSeq(x, seq) == \E i \in DOMAIN seq : seq[i] = x

RunEnded == pc \in {"done", "threw"}

IsReadme == request.service = "readme"

IsCopilot == request.service = "copilot"

\* the characters of a string, one by one
RECURSIVE Chars(_)
Chars(s) ==
  IF s = <<>> THEN <<>>
  ELSE [i \in 1..Head(s).n |-> Head(s).c] \o Chars(Tail(s))

\* the first characters of the model name are cs
HasPrefix(model, cs) ==
  LET chars == Chars(model)
  IN Len(chars) >= Len(cs) /\ SubSeq(chars, 1, Len(cs)) = cs

\* the provider variant that the prefix table gives each model name
PrefixVariant ==
  [m \in Models |->
     IF HasPrefix(m, <<"g", "p", "t", "-">>) THEN "openai"
     ELSE IF HasPrefix(m, <<"g", "e", "m", "i", "n", "i", "-">>) THEN "gemini"
     ELSE "UnsupportedModel"]

VariantOf(model) == PrefixVariant[model]

\* the model name starts with neither "gpt-" nor "gemini-"
MatchesNoPrefix(model) == VariantOf(model) = "UnsupportedModel"

\* the file p is as it was before the run: absent, or with the same content
SameFile(p) ==
  /\ p \in DOMAIN files <=> p \in DOMAIN files0
  /\ p \in DOMAIN files => files[p] = files0[p]

ReadmeOf(folderPath) == Join(folderPath, README_MD)

IsPrefix(p, q) == Len(p) <= Len(q) /\ SubSeq(q, 1, Len(p)) = p

\* the directories of the tree rooted at root, before the run
Tree(root) == {d \in dirs0 : IsPrefix(root, d)}

CallsFor(d) == {i \in DOMAIN calls : calls[i].folderPath = d}

\* C1: in a README run, once the provider has answered the step of folder F
\* with the empty string, GenerationFailed is reported for F/README.md, no
\* write of it is made, and F/README.md is as before the run: absent if it
\* was absent, with its prior content if it existed.
C1_EmptyAnswerLeavesReadme ==
  IsReadme =>
    \A i \in DOMAIN calls :
      calls[i].result = Resolved(Empty) =>
        LET out == ReadmeOf(calls[i].folderPath)
        IN /\ SameFile(out)
           /\ InSeq(Report("GenerationFailed", out), reports)
           /\ ~InSeq(Report("Generated", out), reports)
           /\ ~InSeq(Io("write", out), io)

C1_Witness ==
  /\ IsReadme
  /\ \E i \in DOMAIN calls :
       /\ calls[i].result = Resolved(Empty)
       /\ ReadmeOf(calls[i].folderPath) \in DOMAIN files0

\* C2: in a Copilot run, once the provider has answered with the empty
\* string, GenerationFailed is reported and .github/copilot-instructions.md
\* is as before the run: absent if it was absent, with its prior content if
\* it existed.
C2_EmptyAnswerLeavesInstructions ==
  IsCopilot =>
    \A i \in DOMAIN calls :
      calls[i].result = Resolved(Empty) =>
        /\ SameFile(copilotOutputPath)
        /\ InSeq(Report("GenerationFailed", copilotOutputPath), reports)

\* the subdirectories listed after d in the listing of d's parent
FollowingSiblings(d) ==
  LET sibs == FindSubdirectories(Parent(d))
  IN {sibs[j] : j \in {k \in DOMAIN sibs :
                         \E m \in DOMAIN sibs : sibs[m] = d /\ m < k}}

\* C3: when a recursive README run has ended and the provider call of a
\* subdirectory was rejected, every sibling subdirectory that follows it in
\* the listing has had its own provider invocation.
C3_SiblingsStillProcessed ==
  (IsReadme /\ request.recursive /\ RunEnded) =>
    \A i \in DOMAIN calls :
      (calls[i].result = Rejected /\ calls[i].folderPath # request.dir) =>
        \A sib \in FollowingSiblings(calls[i].folderPath) : CallsFor(sib) # {}

\* C4: in a README run, once the provider has answered the step of folder F
\* with a non-empty string S, F/README.md exists, its content is exactly S,
\* and success is reported for it.
C4_AnswerIsWrittenExactly ==
  IsReadme =>
    \A i \in DOMAIN calls :
      (calls[i].result.state = "resolved" /\ calls[i].result.content # Empty) =>
        LET out == ReadmeOf(calls[i].folderPath)
        IN /\ out \in DOMAIN files
           /\ files[out] = calls[i].result.content
           /\ InSeq(Report("Generated", out), reports)

C4_Witness ==
  /\ IsReadme
  /\ \E i \in DOMAIN calls :
       LET out == ReadmeOf(calls[i].folderPath)
       IN /\ calls[i].result = Resolved(OK)
          /\ out \in DOMAIN files0
          /\ files0[out] # OK
          /\ files[out] = OK

\* C5: when generateReadmeService is called with a target that does not
\* exist, no provider is resolved or invoked, nothing is listed, read, created
\* or written, no error is thrown, and the call returns with DirectoryNotFound
\* as its only report, whatever the recursive flag.
C5_MissingTargetHasNoEffect ==
  (IsReadme /\ request.dir \notin dirs0) =>
    /\ calls = <<>> /\ llm = NoClient /\ prompt = <<>>
    /\ files = files0 /\ dirs = dirs0
    /\ \A k \in DOMAIN io : io[k].op = "exists"
    /\ error = NoError
    /\ pc \in {"ready", "done"}
    /\ pc = "done" => reports = <<Report("DirectoryNotFound", request.dir)>>

C5_Witness ==
  /\ IsReadme /\ request.dir \notin dirs0 /\ request.recursive
  /\ pc = "done"
  /\ reports = <<Report("DirectoryNotFound", request.dir)>>

C7_EachDirectoryOnce ==
  (IsReadme /\ request.recursive /\ request.dir \in dirs0
     /\ ~MatchesNoPrefix(request.model) /\ RunEnded) =>
    /\ \A d \in Tree(request.dir) : Cardinality(CallsFor(d)) = 1
    /\ \A i \in DOMAIN calls : calls[i].folderPath \in Tree(request.dir)

\* C8: in a README run with recursive unset, at most one provider invocation
\* is made and it is for the target; once the run on an existing target with
\* a supported model has ended exactly one has been made; and every file
\* other than the target's README.md is as before the run.
C8_RecursionIsOptIn ==
  (IsReadme /\ ~request.recursive) =>
    /\ Len(calls) <= 1
    /\ \A i \in DOMAIN calls : calls[i].folderPath = request.dir
    /\ (RunEnded /\ request.dir \in dirs0 /\ ~MatchesNoPrefix(request.model))
         => Len(calls) = 1
    /\ \A p \in DOMAIN files \cup DOMAIN files0 :
         p # ReadmeOf(request.dir) => SameFile(p)
    /\ dirs = dirs0

C8_Witness ==
  /\ IsReadme /\ ~request.recursive /\ pc = "done"
  /\ Len(calls) = 1
  /\ ReadmeOf(request.dir) \in DOMAIN files
  /\ files[ReadmeOf(request.dir)] = OK
  /\ \E p \in DOMAIN files0 :
       /\ Basename(p) = README_MD
       /\ IsPrefix(request.dir, Parent(p)) /\ Parent(p) # request.dir

\* C9: in a README run, the prompt of the step of folder F contains the
\* whole content that F/README.md had before the run.
C9_PromptContainsExistingReadme ==
  IsReadme =>
    \A i \in DOMAIN calls :
      LET out == ReadmeOf(calls[i].folderPath)
      IN out \in DOMAIN files0 => Includes(calls[i].prompt, files0[out])

\* the head of the prompt's entry for the file named name
EntryHead(name) == Concat(Lit("## "), Concat(Lit(name), Lit("\n")))

\* C10: in a README run, no prompt has an entry for a file whose name is
\* README.md in any letter case.
C10_OwnReadmeNotScanned ==
  IsReadme =>
    \A i \in DOMAIN calls :
      \A name \in FileNames :
        ToLowerCase(name) = "readme.md" =>
          ~Includes(calls[i].prompt, EntryHead(name))

\* content.split('\n'): the lines of a text
RECURSIVE SplitLines(_, _)
SplitLines(s, line) ==
  IF s = <<>> THEN <<line>>
  ELSE IF Head(s).c = "\n"
       THEN <<line>> \o [i \in 1..(Head(s).n - 1) |-> <<>>]
              \o SplitLines(Tail(s), <<>>)
       ELSE SplitLines(Tail(s), Append(line, Head(s)))

Lines(s) == SplitLines(s, <<>>)

\* the files that the step of folder F scans: the regular files of F, which
\* are as before the run when the step lists them
FilesIn(F) == {p \in DOMAIN files0 : Parent(p) = F}

\* C11: in a README run, for every line of every file scanned by a step
\* (README.md aside), the step's prompt contains the line unchanged if it has at most 120
\* characters, and otherwise contains its first 117 characters followed by
\* "..." and does not contain the whole line.
C11_LongLinesTruncated ==
  IsReadme =>
    \A i \in DOMAIN calls :
      \A p \in {q \in FilesIn(calls[i].folderPath) :
                   ToLowerCase(Basename(q)) # "readme.md"} :
        \A line \in Range(Lines(files0[p])) :
          IF StrLen(line) > MAX_LINE_LENGTH
          THEN /\ Includes(calls[i].prompt,
                           Concat(Slice(line, MAX_LINE_LENGTH - 3),
                                  Word(<<".", ".", ".">>)))
               /\ ~Includes(calls[i].prompt, line)
          ELSE Includes(calls[i].prompt, line)

\* C12: for the model name of the request of a run (checked as the run
\* starts) and every API key, API URL and language, getLLMRepository gives an OpenAI client if the name starts with
\* "gpt-", a Gemini client if it starts with "gemini-", and otherwise the
\* error "Unsupported model: <name>"; the client in use during a provider
\* call and the error that ended a run are the ones the prefix gives.
C12_SelectionByPrefix ==
  LET variant == VariantOf(request.model)
      message == Concat(Lit("Unsupported model: "), request.model)
  IN /\ (pc = "ready" /\ calls = <<>>) =>
          \A k \in ApiKeys, u \in ApiUrls, l \in Languages :
            LET client == GetLLMRepository(request.model, k, u, l)
            IN /\ client.kind = variant
               /\ client.kind = "UnsupportedModel" => client.message = message
               /\ client.kind # "UnsupportedModel" => client.model = request.model
     /\ pc = "calling" => llm.kind = variant
     /\ \A i \in DOMAIN calls : calls[i].llm.kind = variant
     /\ error.kind = "UnsupportedModel" =>
          /\ variant = "UnsupportedModel"
          /\ error.message = message
     /\ (variant = "UnsupportedModel" /\ pc # "ready" /\ request.dir \in dirs0)
          => error.kind = "UnsupportedModel"

C12_Witness ==
  /\ error.kind = "UnsupportedModel"
  /\ HasPrefix(request.model, <<"g", "p", "t">>)

\* the README files of the tree rooted at root, before the run
ReadmesUnder(root) ==
  {p \in DOMAIN files0 :
     IsPrefix(root, Parent(p)) /\ ToLowerCase(Basename(p)) = "readme.md"}

\* a text headed by the path of p relative to root
Section(root, p, text) ==
  Concat(Lit("# "),
  Concat(PathStr(Relative(root, p)),
  Concat(Word(<<"\n", "\n">>), text)))

\* the number of section heads in a text
Sections(s) == Cardinality({i \in DOMAIN s : s[i].c = "# "})

\* C13, as stated: while the provider call of a Copilot run is awaited, the
\* aggregate holds, for every README file of the tree, the file's content
\* headed by its path relative to rootDir, and holds no other section.
C13_AggregateHoldsEveryReadme ==
  (IsCopilot /\ pc = "calling") =>
    /\ \A p \in ReadmesUnder(request.dir) :
         Includes(cur.allReadmeContents, Section(request.dir, p, files0[p]))
    /\ Sections(cur.allReadmeContents) = Cardinality(ReadmesUnder(request.dir))

\* C13, amended: while the provider call of a Copilot run is awaited, the
\* aggregate holds, for every regular file of the tree under rootDir whose
\* name is README.md in any letter case, at every depth, the file's content
\* with its leading and trailing white space removed, headed by its path
\* relative to rootDir; it holds as many sections as there are such files,
\* and none headed by another file of the tree.
C13_AggregateHoldsTrimmedReadmes ==
  (IsCopilot /\ pc = "calling") =>
    /\ \A p \in ReadmesUnder(request.dir) :
         Includes(cur.allReadmeContents,
                  Section(request.dir, p, Concat(Trim(files0[p]), Lit("\n"))))
    /\ Sections(cur.allReadmeContents) = Cardinality(ReadmesUnder(request.dir))
    /\ \A p \in DOMAIN files0 \ ReadmesUnder(request.dir) :
         IsPrefix(request.dir, Parent(p)) =>
           ~Includes(cur.allReadmeContents, Section(request.dir, p, <<>>))
    /\ Includes(prompt, cur.allReadmeContents)

C13_Witness ==
  /\ IsCopilot /\ pc = "calling"
  /\ Cardinality(ReadmesUnder(request.dir)) = 2
  /\ \E p, q \in ReadmesUnder(request.dir) :
       /\ Basename(p) = "readme.md" /\ Basename(q) = README_MD
       /\ Len(p) # Len(q)
       /\ Trim(files0[p]) # files0[p]

\* C14: in a Copilot run, whatever rootDir is, the only file written is
\* .github/copilot-instructions.md of the working directory and the only
\* directory created is .github of the working directory; once the provider
\* has answered, the file exists in that directory, the directory has been
\* created exactly if it was absent, and no error has been raised.
C14_OutputBelowWorkingDirectory ==
  IsCopilot =>
    /\ \A k \in DOMAIN io :
         /\ io[k].op = "write" => io[k].path = <<GITHUB, COPILOT_MD>>
         /\ io[k].op = "mkdir" => io[k].path = <<GITHUB>>
    /\ \A p \in DOMAIN files \cup DOMAIN files0 :
         p # <<GITHUB, COPILOT_MD>> => SameFile(p)
    /\ dirs0 \subseteq dirs /\ dirs \subseteq dirs0 \cup {<<GITHUB>>}
    /\ pc = "done" =>
         /\ <<GITHUB>> \in dirs
         /\ <<GITHUB, COPILOT_MD>> \in DOMAIN files
         /\ InSeq(Io("write", <<GITHUB, COPILOT_MD>>), io)
         /\ InSeq(Io("mkdir", <<GITHUB>>), io) <=> <<GITHUB>> \notin dirs0
         /\ error = NoError

C14_Witness ==
  /\ IsCopilot /\ pc = "done"
  /\ request.dir = <<"a">>
  /\ <<GITHUB>> \notin dirs0
  /\ <<GITHUB, COPILOT_MD>> \in DOMAIN files
  /\ <<"a", GITHUB>> \notin dirs

\* the step of calls[i] has reported its outcome for its README.md
Reported(i) ==
  LET out == ReadmeOf(calls[i].folderPath)
  IN IF calls[i].result.content # Empty
     THEN /\ InSeq(Report("Generated", out), reports)
          /\ InSeq(Io("write", out), io)
          /\ out \in DOMAIN files /\ files[out] = calls[i].result.content
     ELSE InSeq(Report("GenerationFailed", out), reports)

\* C15: in a run of either generator at most one provider invocation is
\* pending, and it is the latest one, made while the run awaits it; in a
\* README run every earlier invocation has resolved and its step has written
\* README.md or reported the failure before the next invocation was started.
C15_OneInvocationInFlight ==
  /\ Cardinality({i \in DOMAIN calls : calls[i].result = Pending}) <= 1
  /\ \A i \in DOMAIN calls :
       calls[i].result = Pending <=> (i = Len(calls) /\ pc = "calling")
  /\ \A i \in DOMAIN calls :
       i < Len(calls) =>
         /\ calls[i].result.state = "resolved"
         /\ IsReadme => Reported(i)
  /\ IsCopilot => Len(calls) <= 1

C15_Witness ==
  /\ IsReadme /\ request.recursive /\ pc = "calling"
  /\ Len(calls) = 3
  /\ calls[1].result = Resolved(OK) /\ calls[2].result = Resolved(Empty)
  /\ calls[3].result = Pending

\* C16: in a README run, once the provider invocation of the step of folder F
\* has been rejected, the run has ended with the provider's error, F/README.md
\* is as before the run and no write or report of it has been made, and no
\* directory below F has had a step.
C16_ProviderErrorEndsStep ==
  IsReadme =>
    \A i \in DOMAIN calls :
      calls[i].result = Rejected =>
        LET F == calls[i].folderPath
        IN /\ pc = "threw" /\ error.kind = "ProviderCallError"
           /\ i = Len(calls)
           /\ SameFile(ReadmeOf(F))
           /\ ~InSeq(Io("write", ReadmeOf(F)), io)
           /\ ~InSeq(Report("Generated", ReadmeOf(F)), reports)
           /\ ~InSeq(Report("GenerationFailed", ReadmeOf(F)), reports)
           /\ \A j \in DOMAIN calls :
                IsPrefix(F, calls[j].folderPath) => calls[j].folderPath = F
           /\ \A k \in DOMAIN io :
                (IsPrefix(F, io[k].path) /\ io[k].path # F) => io[k].op \in {"stat", "read"}

C16_Witness ==
  /\ IsReadme /\ request.recursive
  /\ \E i \in DOMAIN calls :
       /\ calls[i].result = Rejected
       /\ calls[i].folderPath # request.dir
       /\ ReadmeOf(calls[i].folderPath) \in DOMAIN files0
       /\ \E d \in dirs0 : Len(d) > 0 /\ Parent(d) = calls[i].folderPath

\* C17: in a README run with a supported model, the step of an existing
\* folder without files invokes the provider with a non-empty prompt that
\* names the folder and has no file entry; once the provider has answered,
\* README.md is written (text) or GenerationFailed is reported (empty
\* answer); and no error is raised unless the provider invocation raises.
C17_FolderWithoutFiles ==
  (IsReadme /\ VariantOf(request.model) # "UnsupportedModel") =>
    /\ (request.dir \in dirs0 /\ FilesIn(request.dir) = {} /\ pc # "ready")
         => CallsFor(request.dir) # {}
    /\ \A i \in DOMAIN calls :
         FilesIn(calls[i].folderPath) = {} =>
           /\ StrLen(calls[i].prompt) > 0
           /\ Includes(calls[i].prompt,
                       Concat(Lit("Folder path: "), PathStr(calls[i].folderPath)))
           /\ ~Includes(calls[i].prompt, Lit("## "))
           /\ calls[i].result.state = "resolved" => Reported(i)
    /\ error # NoError =>
         /\ error.kind = "ProviderCallError"
         /\ calls[Len(calls)].result = Rejected

C17_Witness ==
  /\ IsReadme /\ pc = "done" /\ error = NoError
  /\ \E i, j \in DOMAIN calls :
       /\ FilesIn(calls[i].folderPath) = {} /\ FilesIn(calls[j].folderPath) = {}
       /\ calls[i].result = Resolved(OK)
       /\ files[ReadmeOf(calls[i].folderPath)] = OK
       /\ calls[j].result = Resolved(Empty)
       /\ ReadmeOf(calls[j].folderPath) \notin DOMAIN files

C19_LanguageReachesProvider ==
  \A i \in DOMAIN calls :
    /\ calls[i].llm.language = request.language
    /\ Includes(SentText(calls[i].llm, calls[i].prompt), Lit(request.language))

\* C20: in a Copilot run, when .github/copilot-instructions.md exists before
\* the run, the file is read and the prompt of the provider invocation
\* contains its content (leading and trailing white space aside).
C20_PromptContainsExistingInstructions ==
  IsCopilot =>
    \A i \in DOMAIN calls :
      copilotOutputPath \in DOMAIN files0 =>
        /\ Includes(calls[i].prompt, Trim(files0[copilotOutputPath]))
        /\ InSeq(Io("read", copilotOutputPath), io)

\* the line that heads the README part of the written instructions file
AllReadmesHead ==
  Word(<<"\n", "\n", "---", "\n", "\n", "# All README files", "\n">>)

ListingIndex(name) == CHOOSE i \in DOMAIN order : order[i] = name

\* p is discovered before q by a depth-first walk in listing order: where the
\* two paths part, the entry on the way to p is listed before the one to q
DiscoveredBefore(p, q) ==
  LET k == CHOOSE j \in 1..Len(p) : p[j] # q[j] /\ SubSeq(p, 1, j - 1) = SubSeq(q, 1, j - 1)
  IN ListingIndex(p[k]) < ListingIndex(q[k])

\* the README files of the tree in discovery order
InDiscoveryOrder(R) ==
  CHOOSE s \in [1..Cardinality(R) -> R] :
    /\ \A i, j \in DOMAIN s : i < j => s[i] # s[j] /\ DiscoveredBefore(s[i], s[j])

\* the aggregate's entry for the README file p
Entry(root, p) == Section(root, p, Concat(Trim(files0[p]), Lit("\n")))

\* C22: while the provider call of a Copilot run is awaited, the aggregate is
\* the entries of the README files of the tree in discovery order (depth
\* first, in listing order), with "\n---\n" between consecutive entries and
\* nothing before the first or after the last.
C22_AggregateInDiscoveryOrder ==
  (IsCopilot /\ pc = "calling") =>
    LET R == ReadmesUnder(request.dir)
        s == InDiscoveryOrder(R)
        agg == cur.allReadmeContents
        rules == Cardinality({i \in DOMAIN agg : agg[i].c = "---"})
    IN /\ R = {} => agg = <<>>
       /\ R # {} =>
            /\ agg = JoinStr([i \in DOMAIN s |-> Entry(request.dir, s[i])],
                             Word(<<"\n", "---", "\n">>))
            /\ rules = Cardinality(R) - 1
            /\ agg[1].c = "# "
            /\ agg[Len(agg)].c = "\n" /\ agg[Len(agg)].n = 1
            /\ agg[Len(agg) - 1].c # "---"

C22_Witness ==
  /\ IsCopilot /\ pc = "calling"
  /\ Cardinality(ReadmesUnder(request.dir)) = 2
  /\ LET s == InDiscoveryOrder(ReadmesUnder(request.dir))
     IN /\ Len(s[1]) > Len(s[2])
        /\ Includes(cur.allReadmeContents,
                    Concat(Entry(request.dir, s[1]),
                           Concat(Word(<<"\n", "---", "\n">>),
                                  Section(request.dir, s[2], <<>>))))

\* the calls the loop of lines 105-113 has just queued, if the step made any
QueuedCalls == IF Len(callStack') > Len(callStack) THEN Head(callStack') ELSE <<>>

\* C23: every recursive call receives the model, the credentials, the
\* recursive flag and the language of its parent call, and differs from it
\* only in the target path.
C23_ConfigurationCopied ==
  [][(IsReadme /\ pc = "calling") =>
       \A j \in DOMAIN QueuedCalls :
         QueuedCalls[j] = [cur.args EXCEPT !.folderPath = QueuedCalls[j].folderPath]]_vars

\* the command was run with --env-mode and neither variable was set
EnvModeWithoutCredentials ==
  /\ "envMode" \in DOMAIN request
  /\ request.envMode
  /\ request.LLM_API_KEY = "none" /\ request.LLM_API_URL = "none"

\* C24: with --env-mode and neither LLM_API_KEY nor LLM_API_URL set, the
\* readme and the copilot command raise their error before the generator is
\* invoked: no step of a generator is taken, the provider is never called
\* and nothing is read, listed, created or written.
C24_EnvCredentialsFailFast ==
  EnvModeWithoutCredentials =>
    /\ pc \in {"command", "threw"}
    /\ pc = "threw" => error.kind = "EnvCredentialsMissing"
    /\ callStack = <<>> /\ calls = <<>> /\ io = <<>> /\ reports = <<>>
    /\ llm = NoClient
    /\ files = files0 /\ dirs = dirs0

C24_Witness ==
  /\ EnvModeWithoutCredentials
  /\ IsCopilot /\ request.dir \in dirs /\ request.model = GPT_4O
  /\ pc = "threw" /\ error.kind = "EnvCredentialsMissing"
  /\ calls = <<>> /\ io = <<>>

\* the step of directory e was completed before invocation j was made
StepDoneBefore(e, j) ==
  \E i \in 1..(j - 1) : calls[i].folderPath = e /\ calls[i].result.state = "resolved"

\* C25: whenever a recursive README run awaits a provider call, its
\* invocations so far are in this order: the step of a directory is completed before
\* the step of any of its subdirectories starts, the whole subtree of a
\* subdirectory is finished before the step of a sibling listed after it
\* starts, so that siblings are taken in listing order.
C25_PreOrderListingOrder ==
  (IsReadme /\ request.recursive /\ pc = "calling") =>
    \A j \in DOMAIN calls :
      LET d == calls[j].folderPath
      IN /\ d # request.dir => StepDoneBefore(Parent(d), j)
         /\ \A s \in Tree(request.dir) \ {request.dir} :
              \A t \in FollowingSiblings(s) :
                IsPrefix(t, d) => \A e \in Tree(s) : StepDoneBefore(e, j)
         /\ \A i \in 1..(j - 1) : calls[i].folderPath # d

C25_Witness ==
  /\ IsReadme /\ request.recursive /\ pc = "done"
  /\ Len(calls) = 4
  /\ calls[2].folderPath = <<"a">>
  /\ calls[3].folderPath = <<"a", "a">>
  /\ calls[4].folderPath = githubDir
  /\ \A i \in DOMAIN calls : calls[i].result.state = "resolved"

\* the names that head the entries of a prompt, in the order of the entries
RECURSIVE EntryNames(_)
EntryNames(s) ==
  IF Len(s) < 2 THEN <<>>
  ELSE IF Head(s).c = "## " THEN <<s[2].c>> \o EntryNames(Tail(Tail(s)))
       ELSE EntryNames(Tail(s))

\* the names of the regular files directly in F, in listing order
ImmediateFiles(F) == SelectSeq(order, LAMBDA n : Join(F, n) \in FilesIn(F))

BeginningOf(e, s) ==
  \/ e = <<>>
  \/ /\ Len(e) <= Len(s)
     /\ \A j \in 1..(Len(e) - 1) : e[j] = s[j]
     /\ e[Len(e)].c = s[Len(e)].c /\ e[Len(e)].n <= s[Len(e)].n

\* the entry of a file in a prompt, with the given text between its fences
FencedEntry(name, text) ==
  Concat(EntryHead(name),
  Concat(Lit("FENCE"),
  Concat(Lit("\n"),
  Concat(text,
  Concat(Lit("\n"), Lit("FENCE"))))))

SupportedModel ==
  StartsWith(request.model, GPT_PREFIX) \/ StartsWith(request.model, GEMINI_PREFIX)

\* C28: a recursive README run on a tree, with a supported model and a
\* provider whose every call returns, comes to its end and stays there,
\* having made as many provider invocations as the tree has directories.
C28_RecursiveRunTerminates ==
  <>[](/\ RunEnded
       /\ (SupportedModel /\ request.recursive) =>
            /\ pc = "done"
            /\ Len(calls) = Cardinality(Tree(request.dir))
            /\ \A d \in Tree(request.dir) : Cardinality(CallsFor(d)) = 1)

C28_Witness ==
  /\ IsReadme /\ request.recursive /\ SupportedModel
  /\ pc = "done" /\ callStack = <<>>
  /\ Cardinality(Tree(request.dir)) = MaxDepth + 2
  /\ Len(calls) = MaxDepth + 2

\* C29: in a run of either generator with a model name that starts with
\* neither "gpt-" nor "gemini-", no provider is invoked, no directory is
\* created and no file is created or modified, README.md and
\* copilot-instructions.md among them; a run on an existing directory ends
\* with the Unsupported-model error; and in a recursive README run the error
\* comes at the root: nothing below the root's own entries is touched and no
\* directory has a README.md that it had not before.
C29_UnsupportedModelNeverWrites ==
  MatchesNoPrefix(request.model) =>
    /\ calls = <<>> /\ llm = NoClient
    /\ dirs = dirs0 /\ files = files0
    /\ \A k \in DOMAIN io : io[k].op \notin {"mkdir", "write"}
    /\ \A d \in dirs : SameFile(ReadmeOf(d))
    /\ SameFile(copilotOutputPath)
    /\ \A i \in DOMAIN reports : reports[i].kind # "Written"
    /\ (RunEnded /\ request.dir \in dirs0) =>
         pc = "threw" /\ error = Unsupported(request.model)
    /\ (IsReadme /\ request.recursive) =>
         \A k \in DOMAIN io :
           io[k].path = request.dir \/ Parent(io[k].path) = request.dir

C29_Witness ==
  /\ MatchesNoPrefix(request.model)
  /\ IsReadme /\ request.recursive
  /\ Cardinality(Tree(request.dir)) >= 3
  /\ pc = "threw" /\ error = Unsupported(request.model)
  /\ \A d \in Tree(request.dir) : ReadmeOf(d) \notin DOMAIN files
  /\ InSeq(Io("readdir", request.dir), io)

\* C30: when the Copilot generator is called with a root that does not
\* exist, the run fails in the discovery of the README files, with the
\* listing's error for the root and whatever the model name: no provider is
\* resolved or invoked, .github and the output file are not created or
\* written, and the file system is as before the run.
C30_MissingRootFailsInDiscovery ==
  (IsCopilot /\ request.dir \notin dirs0) =>
    /\ pc \in {"ready", "threw"}
    /\ pc = "threw" =>
         error = [kind |-> "ENOENT", message |-> PathStr(request.dir)]
    /\ llm = NoClient /\ calls = <<>> /\ prompt = <<>>
    /\ \A k \in DOMAIN io : io[k].op \notin {"mkdir", "write"}
    /\ dirs = dirs0 /\ files = files0
    /\ SameFile(copilotOutputPath)
    /\ reports = <<>>

C30_Witness ==
  /\ IsCopilot /\ request.dir \notin dirs0
  /\ MatchesNoPrefix(request.model)
  /\ githubDir \notin dirs
  /\ pc = "threw" /\ error.kind = "ENOENT"

====
